---- MODULE Spec2Model ----
(***************************************************************************)
(* Model of the request/response pipeline and the asynchronous-operation   *)
(* tracking of atomic_sdk (rtCamp/wp-cloud-atomic-sdk).                    *)
(*                                                                         *)
(* Conventions                                                             *)
(*   - An Optional[T] argument is a sequence: << >> is None, <<v>> is v.   *)
(*   - A JSON response body is a record: its raw text, the kind of value   *)
(*     the text decodes to, the decoded value, and (for an object) its     *)
(*     'data' and 'message' members.                                       *)
(*   - The outcome of a call is a record: kind "return" with a value, or   *)
(*     kind "raise" with the exception class, message and status code.     *)
(*   - An error message is a sequence of text parts (an f-string).         *)
(***************************************************************************)
EXTENDS Integers, Sequences, FiniteSets, TLC

VARIABLES
    client_id_or_name,  \* the client identifier of the session (immutable)
    http,       \* what the transport answers to the request of the call
    res,        \* the outcome of the call
    sent,       \* transport requests issued so far (Counted in the poll loops)
    call,       \* the call made: operation and arguments
    resolved,   \* what _get_service_and_identifier produced in the call
    job,        \* the Job being waited on: its fields and whether _client is set
    wait,       \* Job.wait's arguments and its start_time
    jpc,        \* where Job.wait is: "idle", "test", "status", "sleep", "done"
    clock,      \* time.time()
    real,       \* seconds really elapsed since the wait began
    current_status, \* Job.wait's local: the value of the last status fetch
    seen,       \* the status values fetched during this wait
    jlog,       \* the events of this wait, in order
    jres,       \* the outcome of Job.wait
    task,       \* the Task the monitor loop parsed last
    mpc,        \* where the task monitor loop is: "idle", "get", "sleep", "done"
    mpolls,     \* tasks.get calls made by the monitor loop (Counted)
    mres,       \* how the monitor loop ended
    kstatus,    \* poll_ticket_status's local: summary.get("status")
    kpc,        \* where it is: "idle", "summary", "full", "sleep", "done"
    kpolls,     \* get_summary calls made by the loop (Counted)
    kres,       \* the outcome of poll_ticket_status
    args,       \* the arguments of a payload-building call, by name
    payload,    \* what the call passes to _post as `data`
    form,       \* the form fields requests sends for it, in order
    session,    \* the shared session: API key, base URL, default timeout
    request,    \* the last request handed to the transport
    threads     \* the calls of concurrent callers: one record per thread

\* ------------------------------------------------------------------ bounds
MinStatus == 100
MaxStatus == 600
MaxSiteId == 2
MaxTimeout == 3
MaxPollInterval == 2
MaxPolls == 4
MaxFilters == 2
MaxValues == 3
MaxThreads == 2
MaxClockStep == 2

\* ------------------------------------------------------------- JSON bodies
\* A decoded JSON value: its Python type; for a str its characters, for any
\* other type its JSON text; for a dict, its members as <<key, value>> pairs,
\* each value a Plain record (type and characters or JSON text).
Plain(t, s) == [t |-> t, s |-> s]
Val(t, s) == [t |-> t, s |-> s, m |-> <<>>]
Dict(text, members) == [t |-> "dict", s |-> text, m |-> members]
PyStr(s) == Val("str", s)
PyDict(text) == Dict(text, <<>>)
PyList(text) == Val("list", text)
PyNone == Val("NoneType", "null")
NoVal == Val("", "")

\* dict.get(key): << >> when the key is absent, else <<value>>.
dict_get(v, key) ==
    IF \E i \in DOMAIN v.m : v.m[i][1] = key
    THEN <<v.m[CHOOSE i \in DOMAIN v.m : v.m[i][1] = key][2]>>
    ELSE <<>>

\* A response body: the raw text, whether it decodes ("object", "list",
\* "string", "null") or not ("invalid"), the decoded value, and for an
\* object its 'data' and 'message' members.
JsonBody(text, kind, decoded, hasData, data, hasMessage, message) ==
    [text |-> text, kind |-> kind, decoded |-> decoded, hasData |-> hasData,
     data |-> data, hasMessage |-> hasMessage, message |-> message]

JsonObject(text, hasData, data, hasMessage, message) ==
    JsonBody(text, "object", PyDict(text), hasData, data, hasMessage, message)

JsonOther(text, kind, decoded) == JsonBody(text, kind, decoded, FALSE, NoVal, FALSE, "")

\* {"data": <value>}: the envelope of a success response.
Envelope(text, data) == JsonObject(text, TRUE, data, FALSE, "")

EnvelopeBody ==
    Envelope("{\"data\": {\"id\": 7}}", Dict("{\"id\": 7}", <<<<"id", Plain("int", "7")>>>>))
ListBody == JsonOther("[1, 2, 3]", "list", PyList("[1, 2, 3]"))
BareObjectBody ==
    JsonBody("{\"id\": 7}", "object", Dict("{\"id\": 7}", <<<<"id", Plain("int", "7")>>>>),
             FALSE, NoVal, FALSE, "")
MessageBody ==
    JsonObject("{\"message\": \"Site not found\"}", FALSE, NoVal, TRUE, "Site not found")
DataAndMessageBody ==
    JsonObject("{\"data\": \"success\", \"message\": \"ok\"}", TRUE, PyStr("success"),
               TRUE, "ok")
StringBody == JsonOther("\"queued\"", "string", PyStr("queued"))
NullBody == JsonOther("null", "null", PyNone)
HtmlBody == JsonOther("<html>Bad Gateway</html>", "invalid", NoVal)
EmptyBody == JsonOther("", "invalid", NoVal)

Bodies ==
    {EnvelopeBody, ListBody, BareObjectBody, MessageBody, DataAndMessageBody,
     StringBody, NullBody, HtmlBody, EmptyBody}

StatusCodes == MinStatus..MaxStatus

TransportErrors == {"Connection refused", "Read timed out"}

Endpoints == {"/get-site/1", "/job-status/7"}

\* What the transport does with the request of a call: a transport failure
\* (no response) or a response with a status and a body.
Exchange(endpoint, failed, errtext, status, body) ==
    [endpoint |-> endpoint, failed |-> failed, errtext |-> errtext,
     status |-> status, body |-> body]

Exchanges ==
    {Exchange(e, FALSE, "", s, b) : e \in Endpoints, s \in StatusCodes, b \in Bodies}
    \cup {Exchange(e, TRUE, t, 0, EmptyBody) : e \in Endpoints, t \in TransportErrors}

\* ---------------------------------------------------------------- outcomes
\* classified: the status-code if-chain of _request chose the class.
Outcome(kind, cls, hasStatus, status, message, value, classified) ==
    [kind |-> kind, cls |-> cls, has_status |-> hasStatus, status_code |-> status,
     message |-> message, value |-> value, classified |-> classified]

NoResult == Outcome("none", "", FALSE, 0, <<>>, NoVal, FALSE)

Return(value) == Outcome("return", "", FALSE, 0, <<>>, value, FALSE)

\* AtomicAPIError.__init__(message, status_code=None) and its subclasses.
AtomicAPIError(cls, message, status_code) ==
    Outcome("raise", cls, status_code # <<>>,
            IF status_code # <<>> THEN status_code[1] ELSE 0, message, NoVal, FALSE)

\* An exception that is not part of the SDK's taxonomy (ValueError,
\* AttributeError, TimeoutError, ...).
PyError(cls, message) == Outcome("raise", cls, FALSE, 0, message, NoVal, FALSE)

BASE_URL == "https://atomic-api.wordpress.com/api/v1.0"

\* ------------------------------------------------------------ the session
\* AtomicClient.__init__(api_key, client_id_or_name, timeout=30)
DEFAULT_TIMEOUT == 30

\* self._session.get(url, params=params, timeout=300)
DOWNLOAD_TIMEOUT == 300

\* What AtomicClient.__init__ leaves in the session it shares with every
\* resource client: the Auth header, the base URL and the attribute
\* `timeout` it sets on the requests.Session.
AtomicClient_init(api_key, timeout) ==
    [auth |-> api_key, base_url |-> BASE_URL, timeout |-> timeout]

ApiKeys == {"key-1"}
ClientTimeouts == {DEFAULT_TIMEOUT, 2 * DOWNLOAD_TIMEOUT}
Sessions == {AtomicClient_init(k, t) : k \in ApiKeys, t \in ClientTimeouts}
DefaultSession == AtomicClient_init("key-1", DEFAULT_TIMEOUT)

\* A request as the transport gets it: timeout is << >> when no timeout
\* argument is passed (requests then waits without limit; the attribute
\* `timeout` of a Session is not read by requests).
Request(method, endpoint, timeout, s) ==
    [method |-> method, url |-> <<s.base_url, endpoint>>, auth |-> s.auth,
     timeout |-> timeout]

NoRequest == [method |-> "", url |-> <<>>, auth |-> "", timeout |-> <<>>]

\* The request a helper sends: _request passes method, url and **kwargs
\* (params, data, json); _get_raw passes timeout=300.
HelperRequest(name, endpoint, s) ==
    Request(IF name = "_post" THEN "POST" ELSE "GET", endpoint,
            IF name = "_get_raw" THEN <<DOWNLOAD_TIMEOUT>> ELSE <<>>, s)

\* --------------------------------------------------------- ResourceClient
\* requests.Response.raise_for_status: HTTPError for 4xx and 5xx.
raise_for_status(status) == 400 <= status /\ status < 600

\* The message of a failed response: error_data.get("message", text), the
\* raw text when the body is not JSON.  A JSON value that is not an object
\* has no .get: the AttributeError leaves the handler.
ErrorMessage(body) ==
    IF body.kind = "invalid" THEN [ok |-> TRUE, message |-> body.text]
    ELSE IF body.kind = "object"
         THEN [ok |-> TRUE,
               message |-> IF body.hasMessage THEN body.message ELSE body.text]
         ELSE [ok |-> FALSE, message |-> ""]

\* The if-chain that picks the exception class from the status code.
Classify(status_code) ==
    IF status_code = 404 THEN "NotFoundError"
    ELSE IF 400 <= status_code /\ status_code < 500 THEN "InvalidRequestError"
    ELSE IF 500 <= status_code /\ status_code < 600 THEN "ServerError"
    ELSE "AtomicAPIError"

RequestFailedAsServerError(x) ==
    AtomicAPIError("ServerError", <<"An unexpected server error occurred.">>, <<500>>)

\* except requests.exceptions.RequestException as e:
\*     raise AtomicAPIError(f"Request failed for {url}: {e}")
RequestFailed(x) ==
    AtomicAPIError("AtomicAPIError",
                   <<"Request failed for ", BASE_URL, x.endpoint, ": ", x.errtext>>, <<>>)

\* _request: returns the decoded body (as a body record) or raises.
_request(x) ==
    IF x.failed
    THEN [raised |-> TRUE, body |-> EmptyBody, err |-> RequestFailed(x)]
    ELSE IF raise_for_status(x.status)
    THEN LET m == ErrorMessage(x.body) IN
         [raised |-> TRUE, body |-> EmptyBody,
          err |-> IF m.ok
                  THEN [AtomicAPIError(Classify(x.status), <<m.message>>, <<x.status>>)
                            EXCEPT !.classified = TRUE]
                  ELSE PyError("AttributeError", <<"object has no attribute 'get'">>)]
    ELSE IF x.body.kind = "invalid"
    THEN \* response.json() raises requests' JSONDecodeError, a RequestException
         [raised |-> TRUE, body |-> EmptyBody,
          err |-> AtomicAPIError("AtomicAPIError",
                     <<"Request failed for ", BASE_URL, x.endpoint, ": ",
                       "Expecting value">>, <<>>)]
    ELSE [raised |-> FALSE, body |-> x.body, err |-> NoResult]

\* response.get("data", {}) on the decoded body.
GetData(body) ==
    IF body.kind = "object"
    THEN Return(IF body.hasData THEN body.data ELSE PyDict("{}"))
    ELSE PyError("AttributeError", <<"object has no attribute 'get'">>)

_get(x) ==
    LET response == _request(x) IN
    IF response.raised THEN response.err ELSE GetData(response.body)

_post(x) ==
    LET response == _request(x) IN
    IF response.raised THEN response.err ELSE GetData(response.body)

\* _get_raw: the body bytes, or a generic AtomicAPIError without status code.
_get_raw(x) ==
    IF x.failed
    THEN RequestFailed(x)
    ELSE IF raise_for_status(x.status)
    THEN AtomicAPIError("AtomicAPIError",
             <<"HTTP Error for ", BASE_URL, x.endpoint, ": ", ToString(x.status), " ",
               x.body.text>>, <<>>)
    ELSE Return(Val("bytes", x.body.text))

\* Python truthiness of an Optional[str] and of an Optional[int].
TruthyStr(v) == v # <<>> /\ v[1] # ""
TruthyInt(v) == v # <<>> /\ v[1] # 0

Resolution(raised, service, by, site_id, domain) ==
    [ran |-> TRUE, raised |-> raised, service |-> service, by |-> by,
     site_id |-> site_id, domain |-> domain]

NoResolved == [ran |-> FALSE, raised |-> FALSE, service |-> "",
               by |-> "", site_id |-> 0, domain |-> ""]

\* (service, identifier): by = "domain" when the identifier is the domain,
\* by = "site_id" when it is the site id; raised is the ValueError.
_get_service_and_identifier(client_id, site_id, domain) ==
    IF TruthyStr(domain) THEN Resolution(FALSE, "domain", "domain", 0, domain[1])
    ELSE IF TruthyInt(site_id)
         THEN Resolution(FALSE, client_id, "site_id", site_id[1], "")
         ELSE Resolution(TRUE, "", "", 0, "")

\* EdgeCacheClient._get_identifier: the identifier alone, no service.
_get_identifier(site_id, domain) ==
    IF TruthyStr(domain) THEN Resolution(FALSE, "", "domain", 0, domain[1])
    ELSE IF TruthyInt(site_id)
         THEN Resolution(FALSE, "", "site_id", site_id[1], "")
         ELSE Resolution(TRUE, "", "", 0, "")

\* ------------------------------------------------- site-scoped wrappers
\* A wrapper: the argument check it makes before resolving the site ("none",
\* "software_actions", "duration"), the resolver it uses, the helper that
\* sends its request, and what it builds from the helper's result.
Op(client, name, pre, resolver, helper, returns) ==
    [client |-> client, name |-> name, pre |-> pre, resolver |-> resolver,
     helper |-> helper, returns |-> returns]

SitesOps ==
    {Op("sites", "get", "none", "base", "_get", "Site"),
     Op("sites", "delete", "none", "base", "_post", "Job"),
     Op("sites", "update_domain", "none", "base", "_post", "Job"),
     Op("sites", "list_aliases", "none", "base", "_get", "domains"),
     Op("sites", "add_alias", "none", "base", "_get", "domains"),
     Op("sites", "remove_alias", "none", "base", "_get", "data"),
     Op("sites", "manage_software", "software_actions", "base", "_post", "Job"),
     Op("sites", "set_wordpress_version", "none", "base", "_post", "Job"),
     Op("sites", "update_options", "none", "base", "_post", "Job"),
     Op("sites", "update_persistent_data", "none", "base", "_post", "Job"),
     Op("sites", "get_meta", "none", "base", "_get", "data"),
     Op("sites", "update_meta", "none", "base", "_post", "data"),
     Op("sites", "get_phpmyadmin_url", "none", "base", "_post", "url"),
     Op("sites", "reset_db_password", "none", "base", "_post", "Job"),
     Op("sites", "get_site_logs", "none", "base", "_post", "data"),
     Op("sites", "get_error_logs", "none", "base", "_post", "data")}

BackupsOps ==
    {Op("backups", "list", "none", "base", "_get", "Backups"),
     Op("backups", "info", "none", "base", "_get", "Backup"),
     Op("backups", "get", "none", "base", "_get_raw", "bytes")}

SSHOps ==
    {Op("ssh", "list_users", "none", "base", "_get", "data"),
     Op("ssh", "add_user", "none", "base", "_post", "data"),
     Op("ssh", "remove_user", "none", "base", "_get", "data"),
     Op("ssh", "update_user", "none", "base", "_post", "data"),
     Op("ssh", "disconnect_all_users", "none", "base", "_get", "Job")}

MetricsOps ==
    {Op("metrics", "get_site_logs", "none", "base", "_post", "data"),
     Op("metrics", "get_error_logs", "none", "base", "_post", "data")}

MigrationsOps ==
    {Op("migrations", "create", "none", "base", "_post", "MigrationCreationResponse")}

EdgeCacheOps ==
    {Op("edge_cache", "get_status", "none", "edge", "_get", "data"),
     Op("edge_cache", "set_status", "none", "edge", "_post", "data"),
     Op("edge_cache", "set_defensive_mode", "none", "edge", "_post", "data"),
     Op("edge_cache", "enable_defensive_mode", "duration", "edge", "_post", "data"),
     Op("edge_cache", "disable_defensive_mode", "none", "edge", "_post", "data"),
     Op("edge_cache", "purge", "none", "edge", "_post", "data")}

SiteOps == SitesOps \cup BackupsOps \cup SSHOps \cup MetricsOps
           \cup MigrationsOps \cup EdgeCacheOps

\* The rejection of the wrapper's own argument check.
PreCheckError(op) ==
    IF op.pre = "software_actions"
    THEN AtomicAPIError("InvalidRequestError",
                        <<"software_actions dictionary cannot be empty.">>, <<>>)
    ELSE PyError("ValueError", <<"Duration must be a positive number of minutes.">>)

Helper(name, x) ==
    IF name = "_get" THEN _get(x)
    ELSE IF name = "_post" THEN _post(x)
    ELSE _get_raw(x)

HelperRunRetrying(name, x) ==
    [res |-> Helper(name, x),
     requests |-> IF Helper(name, x).kind = "raise" THEN 2 ELSE 1]

\* One run of a helper: its outcome and the calls of the session's request
\* method it made.  The try block holds one call and every handler raises.
HelperRun(name, x) == [res |-> Helper(name, x), requests |-> 1]

Resolve(op, client_id, site_id, domain) ==
    IF op.resolver = "base"
    THEN _get_service_and_identifier(client_id, site_id, domain)
    ELSE _get_identifier(site_id, domain)

SiteValueError ==
    PyError("ValueError", <<"You must provide either a 'site_id' or a 'domain'.">>)

WrapperSendsFirst(op, client_id, site_id, domain, extra_ok, x) ==
    LET r == Resolve(op, client_id, site_id, domain) IN
    IF r.raised
    THEN [res |-> SiteValueError, resolved |-> r, requests |-> 1]
    ELSE [res |-> Helper(op.helper, x), resolved |-> r, requests |-> 1]

\* A wrapper call: argument check, site resolution, then one request.
Wrapper(op, client_id, site_id, domain, extra_ok, x) ==
    IF op.pre # "none" /\ ~extra_ok
    THEN [res |-> PreCheckError(op), resolved |-> NoResolved, requests |-> 0]
    ELSE LET r == Resolve(op, client_id, site_id, domain) IN
         IF r.raised
         THEN [res |-> SiteValueError, resolved |-> r, requests |-> 0]
         ELSE [res |-> HelperRun(op.helper, x).res, resolved |-> r,
               requests |-> HelperRun(op.helper, x).requests]

SiteIds == {<<>>} \cup {<<i>> : i \in 0..MaxSiteId}
Domains == {<<>>, <<"">>, <<"example.com">>}
ClientIds == {"acme", "1234"}

\* ------------------------------------------------------------------ state
NoOp == Op("", "", "none", "", "", "")
Call(op, site_id, domain, extra_ok) ==
    [op |-> op, site_id |-> site_id, domain |-> domain, extra_ok |-> extra_ok]
NoCall == Call(NoOp, <<>>, <<>>, TRUE)
HelperCall(name) == Call(Op("", name, "none", "", name, "data"), <<>>, <<>>, TRUE)

callVars == <<http, res, call, resolved>>
jobVars == <<job, wait, jpc, clock, real, current_status, seen, jlog, jres>>
taskVars == <<task, mpc, mpolls, mres>>
ticketVars == <<kstatus, kpc, kpolls, kres>>
payloadVars == <<args, payload, form>>
vars == <<client_id_or_name, session, request, threads, sent, callVars, jobVars,
          taskVars, ticketVars, payloadVars>>

\* A counter of the poll loops, which have no bound of their own: it counts
\* up to MaxPolls and stays there.
Counted(n) == IF n < MaxPolls THEN n + 1 ELSE n

\* A parsed Task: complete is << >> for None, else <<seconds since the epoch>>.
TaskRecord(parsed, complete, meta) ==
    [parsed |-> parsed, complete |-> complete, meta |-> meta]

NoTask == TaskRecord(FALSE, <<>>, Plain("", ""))

\* No task monitor loop is under way.
TaskIdle ==
    /\ task = NoTask
    /\ mpc = "idle"
    /\ mpolls = 0
    /\ mres = NoResult

\* No ticket poll loop is under way.
TicketIdle ==
    /\ kstatus = <<>>
    /\ kpc = "idle"
    /\ kpolls = 0
    /\ kres = NoResult

\* No payload has been built.
PayloadIdle ==
    /\ args = <<>>
    /\ payload = <<>>
    /\ form = <<>>

NoExchange == Exchange("", FALSE, "", 0, EmptyBody)

Threads == 1..MaxThreads

\* A caller thread: where its call is ("idle", "built", "sent", "done"), the
\* helper it calls, the request it built, the answer it got, its outcome.
Thread(pc, helper, req, answer, out) ==
    [pc |-> pc, helper |-> helper, request |-> req, http |-> answer, res |-> out]

\* No thread has made a call.
ThreadsIdle == threads = [t \in Threads |-> Thread("idle", "", NoRequest, NoExchange, NoResult)]

\* A Job: its fields (the Optional ones as << >> or <<value>>) and whether
\* its _client attribute holds a client.
Job(job_id, atomic_site_id, domain_name, wpcom_blog_id, has_client) ==
    [job_id |-> job_id, atomic_site_id |-> atomic_site_id,
     domain_name |-> domain_name, wpcom_blog_id |-> wpcom_blog_id,
     has_client |-> has_client]

NoJob == Job(0, <<>>, <<>>, <<>>, FALSE)

NoWait == [timeout |-> 0, poll_interval |-> 0, start_time |-> 0]

\* No helper or wrapper call is under way.
CallIdle ==
    /\ http = Exchange("", FALSE, "", 0, EmptyBody)
    /\ res = NoResult
    /\ call = NoCall
    /\ resolved = NoResolved

\* No Job.wait is under way.
JobIdle ==
    /\ job = NoJob
    /\ wait = NoWait
    /\ jpc = "idle"
    /\ clock = 0
    /\ real = 0
    /\ current_status = NoVal
    /\ seen = {}
    /\ jlog = <<>>
    /\ jres = NoResult

\* ------------------------------------------------- actions: JSON helpers
\* One helper call on a fresh client; the transport's answer is the input.
InitRequest ==
    /\ ThreadsIdle
    /\ session \in Sessions
    /\ request = NoRequest
    /\ PayloadIdle
    /\ JobIdle
    /\ TaskIdle
    /\ TicketIdle
    /\ client_id_or_name \in ClientIds
    /\ http \in Exchanges
    /\ res = NoResult
    /\ sent = 0
    /\ call = NoCall
    /\ resolved = NoResolved

Get ==
    /\ call = NoCall
    /\ call' = HelperCall("_get")
    /\ request' = HelperRequest("_get", http.endpoint, session)
    /\ res' = HelperRun("_get", http).res
    /\ sent' = sent + HelperRun("_get", http).requests
    /\ UNCHANGED <<client_id_or_name, session, threads, payloadVars, http, resolved, jobVars, taskVars, ticketVars>>

Post ==
    /\ call = NoCall
    /\ call' = HelperCall("_post")
    /\ request' = HelperRequest("_post", http.endpoint, session)
    /\ res' = HelperRun("_post", http).res
    /\ sent' = sent + HelperRun("_post", http).requests
    /\ UNCHANGED <<client_id_or_name, session, threads, payloadVars, http, resolved, jobVars, taskVars, ticketVars>>

GetRaw ==
    /\ call = NoCall
    /\ call' = HelperCall("_get_raw")
    /\ request' = HelperRequest("_get_raw", http.endpoint, session)
    /\ res' = HelperRun("_get_raw", http).res
    /\ sent' = sent + HelperRun("_get_raw", http).requests
    /\ UNCHANGED <<client_id_or_name, session, threads, payloadVars, http, resolved, jobVars, taskVars, ticketVars>>

NextRequest == Get \/ Post \/ GetRaw

SpecRequest == InitRequest /\ [][NextRequest]_vars

\* --------------------------------------------- actions: site-scoped calls
SiteExchanges ==
    {Exchange("/site", FALSE, "", 200, EnvelopeBody),
     Exchange("/site", FALSE, "", 404, MessageBody),
     Exchange("/site", FALSE, "", 502, HtmlBody),
     Exchange("/site", TRUE, "Connection refused", 0, EmptyBody)}

InitSite ==
    /\ ThreadsIdle
    /\ session = DefaultSession
    /\ request = NoRequest
    /\ PayloadIdle
    /\ JobIdle
    /\ TaskIdle
    /\ TicketIdle
    /\ client_id_or_name \in ClientIds
    /\ http \in SiteExchanges
    /\ res = NoResult
    /\ sent = 0
    /\ call = NoCall
    /\ resolved = NoResolved

SiteCall ==
    \E op \in SiteOps, site_id \in SiteIds, domain \in Domains, extra_ok \in BOOLEAN :
        /\ call = NoCall
        /\ op.pre = "none" => extra_ok
        /\ LET w == Wrapper(op, client_id_or_name, site_id, domain, extra_ok, http) IN
           /\ call' = Call(op, site_id, domain, extra_ok)
           /\ res' = w.res
           /\ resolved' = w.resolved
           /\ sent' = sent + w.requests
           /\ request' = IF w.requests > 0
                         THEN HelperRequest(op.helper, http.endpoint, session)
                         ELSE request
        /\ UNCHANGED <<client_id_or_name, session, threads, payloadVars, http, jobVars, taskVars, ticketVars>>

NextSite == SiteCall

SpecSite == InitSite /\ [][NextSite]_vars

\* ------------------------------------------------------------ Job.wait
\* The job ids of the Jobs waited on.
JobIds == {7}

JobStatusDict(text, st) == Dict(text, <<<<"_status", Plain("str", st)>>>>)

JobStatusBodies ==
    {Envelope("{\"data\": \"success\"}", PyStr("success")),
     Envelope("{\"data\": \"failure\"}", PyStr("failure")),
     Envelope("{\"data\": \"failed\"}", PyStr("failed")),
     Envelope("{\"data\": \"error\"}", PyStr("error")),
     Envelope("{\"data\": \"queued\"}", PyStr("queued")),
     Envelope("{\"data\": {\"_status\": \"success\"}}", JobStatusDict("{\"_status\": \"success\"}", "success")),
     Envelope("{\"data\": {\"_status\": \"failed\"}}", JobStatusDict("{\"_status\": \"failed\"}", "failed")),
     Envelope("{\"data\": {\"_status\": \"queued\"}}", JobStatusDict("{\"_status\": \"queued\"}", "queued"))}

\* What the transport may answer to GET /job-status/<job_id>.
JobExchanges ==
    {Exchange("/job-status/7", FALSE, "", 200, b) : b \in JobStatusBodies}
    \cup {Exchange("/job-status/7", FALSE, "", 404, MessageBody),
          Exchange("/job-status/7", TRUE, "Read timed out", 0, EmptyBody)}

\* SitesClient.get_job_status
get_job_status(job_id, x) == _get(x)

JobStatusRequestAsPost(job_id, s) ==
    HelperRequest("_post", "/job-status/" \o ToString(job_id), s)

\* The request of SitesClient.get_job_status(job_id).
job_status_request(job_id, s) ==
    HelperRequest("_get", "/job-status/" \o ToString(job_id), s)

\* Job.status: [sent: whether a request went out, out: the outcome]
status(j, x) ==
    IF ~j.has_client
    THEN [sent |-> 0,
          out |-> PyError("RuntimeError",
                    <<"Job object must be initialized with a client reference to fetch status.">>)]
    ELSE [sent |-> 1, out |-> get_job_status(j.job_id, x)]

IsTerminalNever(v) == FALSE

\* current_status in ["success", "failure"]
IsTerminal(v) == v \in {PyStr("success"), PyStr("failure")}

LoopContinuesLate(w, now) == now - w.start_time < w.timeout + w.poll_interval

\* while time.time() - start_time < timeout
LoopContinues(w, now) == now - w.start_time < w.timeout

TimeoutReturned(j, timeout) == Return(PyStr("timeout"))

TimeoutAsFailure(j, timeout) == Return(PyStr("failure"))

\* raise TimeoutError(...)
TimeoutOutcome(j, timeout) ==
    PyError("TimeoutError",
            <<"Job ", ToString(j.job_id), " did not complete within ",
              ToString(timeout), " seconds.">>)

Timeouts == (0 - 1)..MaxTimeout
PollIntervals == 0..MaxPollInterval

InitJob ==
    /\ ThreadsIdle
    /\ session = DefaultSession
    /\ request = NoRequest
    /\ PayloadIdle
    /\ CallIdle
    /\ TaskIdle
    /\ TicketIdle
    /\ client_id_or_name \in ClientIds
    /\ sent = 0
    /\ job \in {Job(id, <<>>, <<>>, <<>>, c) : id \in JobIds, c \in BOOLEAN}
    /\ wait = NoWait
    /\ jpc = "idle"
    /\ clock = 0
    /\ real = 0
    /\ current_status = NoVal
    /\ seen = {}
    /\ jlog = <<>>
    /\ jres = NoResult

\* job.wait(timeout, poll_interval): start_time = time.time()
JobWait ==
    \E timeout \in Timeouts, poll_interval \in PollIntervals :
        /\ jpc = "idle"
        /\ wait' = [timeout |-> timeout, poll_interval |-> poll_interval,
                    start_time |-> clock]
        /\ jpc' = "test"
        /\ UNCHANGED <<client_id_or_name, session, threads, request, payloadVars, sent, callVars, job, clock, real,
                       current_status, seen, jlog, jres, taskVars, ticketVars>>

Fetches == Cardinality({i \in DOMAIN jlog : jlog[i] = "fetch"})

\* The loop condition; when it fails the wait raises TimeoutError.
JobWaitTest ==
    /\ jpc = "test"
    /\ Fetches < MaxPolls
    /\ IF LoopContinues(wait, clock)
       THEN /\ jpc' = "status"
            /\ UNCHANGED <<jlog, jres>>
       ELSE /\ jpc' = "done"
            /\ jlog' = Append(jlog, "timeout")
            /\ jres' = TimeoutOutcome(job, wait.timeout)
    /\ UNCHANGED <<client_id_or_name, session, threads, request, payloadVars, sent, callVars, job, wait, clock, real,
                   current_status, seen, taskVars, ticketVars>>

\* current_status = self.status(), then the terminal test.
JobWaitStatus ==
    \E x \in JobExchanges :
        LET r == status(job, x) IN
        /\ jpc = "status"
        /\ http' = IF r.sent > 0 THEN x ELSE http
        /\ sent' = sent + r.sent
        /\ request' = IF r.sent > 0 THEN job_status_request(job.job_id, session)
                      ELSE request
        /\ IF r.out.kind = "raise"
           THEN /\ jpc' = "done"
                /\ jres' = r.out
                /\ jlog' = Append(jlog, "fetch_error")
                /\ UNCHANGED <<current_status, seen>>
           ELSE /\ current_status' = r.out.value
                /\ seen' = seen \cup {r.out.value}
                /\ jlog' = Append(jlog, "fetch")
                /\ IF IsTerminal(r.out.value)
                   THEN jpc' = "done" /\ jres' = Return(r.out.value)
                   ELSE jpc' = "sleep" /\ jres' = jres
        /\ UNCHANGED <<client_id_or_name, session, threads, payloadVars, res, call, resolved,
                       job, wait, clock, real, taskVars, ticketVars>>

\* time.sleep(poll_interval)
JobWaitSleep ==
    /\ jpc = "sleep"
    /\ clock' = clock + wait.poll_interval
    /\ real' = real + wait.poll_interval
    /\ jlog' = Append(jlog, "sleep")
    /\ jpc' = "test"
    /\ UNCHANGED <<client_id_or_name, session, threads, request, payloadVars, sent, callVars, job, wait, current_status,
                   seen, jres, taskVars, ticketVars>>

NextJob == JobWait \/ JobWaitTest \/ JobWaitStatus \/ JobWaitSleep

SpecJob == InitJob /\ [][NextJob]_vars

\* ------------------------------------------- Job.wait and the wall clock
\* The amounts by which the system clock may be set forward or backward.
ClockSteps == {d \in (0 - MaxClockStep)..MaxClockStep : d # 0}

\* The system clock is stepped while a wait is in progress: time.time()
\* jumps, no real time passes.  One step per wait.
ClockStep ==
    \E d \in ClockSteps :
        /\ jpc \in {"test", "status", "sleep"}
        /\ clock = real
        /\ clock' = clock + d
        /\ UNCHANGED <<client_id_or_name, session, threads, request, payloadVars, sent,
                       callVars, job, wait, jpc, real, current_status, seen, jlog, jres,
                       taskVars, ticketVars>>

NextJobClock == NextJob \/ ClockStep

SpecJobClock == InitJob /\ [][NextJobClock]_vars

\* ------------------------------------------------- Jobs through the facade
\* The operations reached through AtomicClient that return a Job.
JobOps == {op \in SitesOps \cup SSHOps : op.returns = "Job"}

\* The `_client` attribute of a resource client after AtomicClient.__init__:
\* set for client.sites only; the class attribute None everywhere else.
ClientReference(client) == client = "sites"

JobBody ==
    Envelope("{\"data\": {\"job_id\": 7}}",
             Dict("{\"job_id\": 7}", <<<<"job_id", Plain("int", "7")>>>>))

JobSiteBody ==
    Envelope("{\"data\": {\"job_id\": 7, \"atomic_site_id\": 1, \"domain_name\": \"example.com\"}}",
             Dict("{\"job_id\": 7, \"atomic_site_id\": 1, \"domain_name\": \"example.com\"}",
                  <<<<"job_id", Plain("int", "7")>>, <<"atomic_site_id", Plain("int", "1")>>,
                    <<"domain_name", Plain("str", "example.com")>>>>))

\* What the transport may answer to the request of a job-returning call.
FacadeExchanges ==
    {Exchange("/site", FALSE, "", 200, JobBody),
     Exchange("/site", FALSE, "", 200, JobSiteBody),
     Exchange("/site", FALSE, "", 200, EnvelopeBody),
     Exchange("/site", FALSE, "", 404, MessageBody),
     Exchange("/site", TRUE, "Connection refused", 0, EmptyBody)}

\* Job.parse_obj(response_data); job._client = self._client.  parsed = FALSE
\* is pydantic's ValidationError (job_id is required).
Job_parse_obj(data, client) ==
    LET id == dict_get(data, "job_id")
        site == dict_get(data, "atomic_site_id")
        name == dict_get(data, "domain_name")
        blog == dict_get(data, "wpcom_blog_id")
        IsInt(v, S) == v[1].t = "int" /\ \E n \in S : ToString(n) = v[1].s
        AsInt(v, S) == CHOOSE n \in S : ToString(n) = v[1].s
    IN
    IF /\ data.t = "dict"
       /\ id # <<>> /\ IsInt(id, JobIds)
       /\ site # <<>> => IsInt(site, 0..MaxSiteId)
       /\ name # <<>> => name[1].t = "str"
       /\ blog # <<>> => IsInt(blog, 0..MaxSiteId)
    THEN [parsed |-> TRUE,
          job |-> Job(AsInt(id, JobIds),
                      IF site = <<>> THEN <<>> ELSE <<AsInt(site, 0..MaxSiteId)>>,
                      IF name = <<>> THEN <<>> ELSE <<name[1].s>>,
                      IF blog = <<>> THEN <<>> ELSE <<AsInt(blog, 0..MaxSiteId)>>,
                      ClientReference(client))]
    ELSE [parsed |-> FALSE, job |-> NoJob]

\* The site of a job-returning call: omitted, or given by its id.
FacadeSiteIds == {<<>>, <<1>>}

InitFacade ==
    /\ ThreadsIdle
    /\ session = DefaultSession
    /\ request = NoRequest
    /\ PayloadIdle
    /\ JobIdle
    /\ TaskIdle
    /\ TicketIdle
    /\ client_id_or_name = "acme"
    /\ http \in FacadeExchanges
    /\ res = NoResult
    /\ sent = 0
    /\ call = NoCall
    /\ resolved = NoResolved

\* client.sites.<op>(...) or client.ssh.disconnect_all_users(...)
FacadeJobCall ==
    \E op \in JobOps, site_id \in FacadeSiteIds, domain \in {<<>>}, extra_ok \in BOOLEAN :
        /\ call = NoCall
        /\ op.pre = "none" => extra_ok
        /\ LET w == Wrapper(op, client_id_or_name, site_id, domain, extra_ok, http)
               j == Job_parse_obj(w.res.value, op.client)
           IN
           /\ call' = Call(op, site_id, domain, extra_ok)
           /\ resolved' = w.resolved
           /\ sent' = sent + w.requests
           /\ request' = IF w.requests > 0
                         THEN HelperRequest(op.helper, http.endpoint, session)
                         ELSE request
           /\ IF w.res.kind = "raise"
              THEN res' = w.res /\ job' = job
              ELSE IF j.parsed
                   THEN res' = w.res /\ job' = j.job
                   ELSE /\ res' = PyError("ValidationError", <<"validation error for Job">>)
                        /\ job' = job
        /\ UNCHANGED <<client_id_or_name, session, threads, payloadVars, http, wait, jpc,
                       clock, real, current_status, seen, jlog, jres, taskVars,
                       ticketVars>>

\* job.status() on the Job the call returned.
FacadeJobStatus ==
    \E x \in JobExchanges :
        LET r == status(job, x) IN
        /\ job.job_id # 0
        /\ jpc = "idle"
        /\ jpc' = "done"
        /\ http' = IF r.sent > 0 THEN x ELSE http
        /\ jres' = r.out
        /\ jlog' = Append(jlog, "status")
        /\ sent' = sent + r.sent
        /\ request' = IF r.sent > 0 THEN job_status_request(job.job_id, session)
                      ELSE request
        /\ UNCHANGED <<client_id_or_name, session, threads, payloadVars, res, call, resolved,
                       job, wait, clock, real, current_status, seen, taskVars,
                       ticketVars>>

\* job.wait(...) on the Job the call returned.
FacadeJobWait == job.job_id # 0 /\ NextJob

NextFacade == FacadeJobCall \/ FacadeJobStatus \/ FacadeJobWait

SpecFacade == InitFacade /\ [][NextFacade]_vars

\* ---------------------------------------------------------- Task status
\* {"data": <task>}: the answer of /task-get/<task_id>.  The raw text of a
\* 2xx JSON body is never read, only its decoded value.
TaskBody(text, members) == JsonObject("(task-get envelope)", TRUE, Dict(text, members), FALSE, "")

TaskStatusBodies ==
    {TaskBody("{\"task_id\": 5, \"meta\": {\"success_count\": 0, \"failure_count\": 0}}",
              <<<<"task_id", Plain("int", "5")>>, <<"meta", Plain("dict", "{\"success_count\": 0, \"failure_count\": 0}")>>>>),
     TaskBody("{\"task_id\": 5, \"meta\": {\"success_count\": 2, \"failure_count\": 1}}",
              <<<<"task_id", Plain("int", "5")>>, <<"meta", Plain("dict", "{\"success_count\": 2, \"failure_count\": 1}")>>>>),
     TaskBody("{\"task_id\": 5, \"meta\": {\"success_count\": 0, \"failure_count\": 3}}",
              <<<<"task_id", Plain("int", "5")>>, <<"meta", Plain("dict", "{\"success_count\": 0, \"failure_count\": 3}")>>>>),
     TaskBody("{\"task_id\": 5, \"complete\": null, \"meta\": {\"success_count\": 0, \"failure_count\": 0}}",
              <<<<"task_id", Plain("int", "5")>>, <<"complete", Plain("NoneType", "null")>>, <<"meta", Plain("dict", "{\"success_count\": 0, \"failure_count\": 0}")>>>>),
     TaskBody("{\"task_id\": 5, \"complete\": null, \"meta\": {\"success_count\": 2, \"failure_count\": 1}}",
              <<<<"task_id", Plain("int", "5")>>, <<"complete", Plain("NoneType", "null")>>, <<"meta", Plain("dict", "{\"success_count\": 2, \"failure_count\": 1}")>>>>),
     TaskBody("{\"task_id\": 5, \"complete\": null, \"meta\": {\"success_count\": 0, \"failure_count\": 3}}",
              <<<<"task_id", Plain("int", "5")>>, <<"complete", Plain("NoneType", "null")>>, <<"meta", Plain("dict", "{\"success_count\": 0, \"failure_count\": 3}")>>>>),
     TaskBody("{\"task_id\": 5, \"complete\": \"\", \"meta\": {\"success_count\": 0, \"failure_count\": 0}}",
              <<<<"task_id", Plain("int", "5")>>, <<"complete", Plain("str", "")>>, <<"meta", Plain("dict", "{\"success_count\": 0, \"failure_count\": 0}")>>>>),
     TaskBody("{\"task_id\": 5, \"complete\": \"\", \"meta\": {\"success_count\": 2, \"failure_count\": 1}}",
              <<<<"task_id", Plain("int", "5")>>, <<"complete", Plain("str", "")>>, <<"meta", Plain("dict", "{\"success_count\": 2, \"failure_count\": 1}")>>>>),
     TaskBody("{\"task_id\": 5, \"complete\": \"\", \"meta\": {\"success_count\": 0, \"failure_count\": 3}}",
              <<<<"task_id", Plain("int", "5")>>, <<"complete", Plain("str", "")>>, <<"meta", Plain("dict", "{\"success_count\": 0, \"failure_count\": 3}")>>>>),
     TaskBody("{\"task_id\": 5, \"complete\": \"2024-01-01T00:00:00Z\", \"meta\": {\"success_count\": 0, \"failure_count\": 0}}",
              <<<<"task_id", Plain("int", "5")>>, <<"complete", Plain("str", "2024-01-01T00:00:00Z")>>, <<"meta", Plain("dict", "{\"success_count\": 0, \"failure_count\": 0}")>>>>),
     TaskBody("{\"task_id\": 5, \"complete\": \"2024-01-01T00:00:00Z\", \"meta\": {\"success_count\": 2, \"failure_count\": 1}}",
              <<<<"task_id", Plain("int", "5")>>, <<"complete", Plain("str", "2024-01-01T00:00:00Z")>>, <<"meta", Plain("dict", "{\"success_count\": 2, \"failure_count\": 1}")>>>>),
     TaskBody("{\"task_id\": 5, \"complete\": \"2024-01-01T00:00:00Z\", \"meta\": {\"success_count\": 0, \"failure_count\": 3}}",
              <<<<"task_id", Plain("int", "5")>>, <<"complete", Plain("str", "2024-01-01T00:00:00Z")>>, <<"meta", Plain("dict", "{\"success_count\": 0, \"failure_count\": 3}")>>>>),
     TaskBody("{\"task_id\": 5, \"complete\": \"1970-01-01T00:00:00Z\", \"meta\": {\"success_count\": 0, \"failure_count\": 0}}",
              <<<<"task_id", Plain("int", "5")>>, <<"complete", Plain("str", "1970-01-01T00:00:00Z")>>, <<"meta", Plain("dict", "{\"success_count\": 0, \"failure_count\": 0}")>>>>),
     TaskBody("{\"task_id\": 5, \"complete\": \"1970-01-01T00:00:00Z\", \"meta\": {\"success_count\": 2, \"failure_count\": 1}}",
              <<<<"task_id", Plain("int", "5")>>, <<"complete", Plain("str", "1970-01-01T00:00:00Z")>>, <<"meta", Plain("dict", "{\"success_count\": 2, \"failure_count\": 1}")>>>>),
     TaskBody("{\"task_id\": 5, \"complete\": \"1970-01-01T00:00:00Z\", \"meta\": {\"success_count\": 0, \"failure_count\": 3}}",
              <<<<"task_id", Plain("int", "5")>>, <<"complete", Plain("str", "1970-01-01T00:00:00Z")>>, <<"meta", Plain("dict", "{\"success_count\": 0, \"failure_count\": 3}")>>>>),
     TaskBody("{\"task_id\": 5, \"complete\": \"tomorrow\", \"meta\": {\"success_count\": 0, \"failure_count\": 0}}",
              <<<<"task_id", Plain("int", "5")>>, <<"complete", Plain("str", "tomorrow")>>, <<"meta", Plain("dict", "{\"success_count\": 0, \"failure_count\": 0}")>>>>),
     TaskBody("{\"task_id\": 5, \"complete\": \"tomorrow\", \"meta\": {\"success_count\": 2, \"failure_count\": 1}}",
              <<<<"task_id", Plain("int", "5")>>, <<"complete", Plain("str", "tomorrow")>>, <<"meta", Plain("dict", "{\"success_count\": 2, \"failure_count\": 1}")>>>>),
     TaskBody("{\"task_id\": 5, \"complete\": \"tomorrow\", \"meta\": {\"success_count\": 0, \"failure_count\": 3}}",
              <<<<"task_id", Plain("int", "5")>>, <<"complete", Plain("str", "tomorrow")>>, <<"meta", Plain("dict", "{\"success_count\": 0, \"failure_count\": 3}")>>>>)}

TaskExchanges ==
    {Exchange("/task-get/5", FALSE, "", 200, b) : b \in TaskStatusBodies}
    \cup {Exchange("/task-get/5", FALSE, "", 200,
                   TaskBody("{\"task_id\": 5, \"complete\": \"\"}",
                            <<<<"task_id", Plain("int", "5")>>, <<"complete", Plain("str", "")>>>>)),
          Exchange("/task-get/5", FALSE, "", 404, MessageBody),
          Exchange("/task-get/5", TRUE, "Connection refused", 0, EmptyBody)}

\* pydantic's datetime parsing of an ISO 8601 string, as seconds since the
\* epoch: [ok, value].
ParseIsoDatetime(s) ==
    CASE s = "2024-01-01T00:00:00Z" -> [ok |-> TRUE, value |-> 1704067200]
      [] s = "1970-01-01T00:00:00Z" -> [ok |-> TRUE, value |-> 0]
      [] OTHER -> [ok |-> FALSE, value |-> 0]

_validate_complete_Identity(v) == v

\* Task._validate_complete (pre=True): the empty string becomes None.
_validate_complete(v) ==
    IF v.t = "str" /\ v.s = "" THEN Plain("NoneType", "null") ELSE v

\* Optional[datetime]: None stays None, a str is parsed.
ValidateOptionalDatetime(v) ==
    IF v.t = "NoneType" THEN [ok |-> TRUE, value |-> <<>>]
    ELSE IF v.t = "str"
         THEN LET d == ParseIsoDatetime(v.s) IN
              [ok |-> d.ok, value |-> IF d.ok THEN <<d.value>> ELSE <<>>]
         ELSE [ok |-> FALSE, value |-> <<>>]

\* Task.parse_obj: parsed = FALSE is pydantic's ValidationError.  A missing
\* 'complete' takes the default None without running the validator.
Task_parse_obj(data) ==
    LET c == dict_get(data, "complete")
        meta == dict_get(data, "meta")
        complete == IF c = <<>> THEN [ok |-> TRUE, value |-> <<>>]
                    ELSE ValidateOptionalDatetime(_validate_complete(c[1]))
    IN  IF /\ data.t = "dict"
           /\ dict_get(data, "task_id") # <<>>
           /\ meta # <<>> /\ meta[1].t = "dict"
           /\ complete.ok
        THEN TaskRecord(TRUE, complete.value, meta[1])
        ELSE NoTask

\* TasksClient.get: [out: the outcome of the call, task: the parsed Task]
tasks_get(x) ==
    LET response_data == _post(x) IN
    IF response_data.kind = "raise"
    THEN [out |-> response_data, task |-> NoTask]
    ELSE LET t == Task_parse_obj(response_data.value) IN
         IF t.parsed
         THEN [out |-> response_data, task |-> t]
         ELSE [out |-> PyError("ValidationError", <<"validation error for Task">>),
               task |-> NoTask]

\* `if task_status.complete:` a datetime is always true, None is false.
TaskComplete(t) == t.complete # <<>>

InitTask ==
    /\ ThreadsIdle
    /\ session = DefaultSession
    /\ request = NoRequest
    /\ PayloadIdle
    /\ CallIdle
    /\ JobIdle
    /\ TicketIdle
    /\ client_id_or_name \in ClientIds
    /\ sent = 0
    /\ task = NoTask
    /\ mpc = "get"
    /\ mpolls = 0
    /\ mres = NoResult

\* task_status = client.tasks.get(task_id); `if task_status.complete: break`
TaskMonitorGet ==
    \E x \in TaskExchanges :
        LET r == tasks_get(x) IN
        /\ mpc = "get"
        /\ http' = x
        /\ request' = HelperRequest("_post", x.endpoint, session)
        /\ sent' = Counted(sent)
        /\ mpolls' = Counted(mpolls)
        /\ task' = r.task
        /\ IF r.out.kind = "raise"
           THEN mpc' = "done" /\ mres' = r.out
           ELSE IF TaskComplete(r.task)
                THEN mpc' = "done" /\ mres' = Return(PyStr("Task finished!"))
                ELSE mpc' = "sleep" /\ mres' = mres
        /\ UNCHANGED <<client_id_or_name, session, threads, payloadVars, res, call, resolved, jobVars, ticketVars>>

\* time.sleep(5)
TaskMonitorSleep ==
    /\ mpc = "sleep"
    /\ mpc' = "get"
    /\ UNCHANGED <<client_id_or_name, session, threads, request, payloadVars, sent, callVars, jobVars, task, mpolls, mres,
                   ticketVars>>

NextTask == TaskMonitorGet \/ TaskMonitorSleep

SpecTask == InitTask /\ [][NextTask]_vars

\* -------------------------------------------------------- Ticket status
\* {"data": <summary>}: the answer of /response-ticket/get/summary/<id>.
TicketBody(text, members) ==
    JsonObject("(ticket summary envelope)", TRUE, Dict(text, members), FALSE, "")

TicketSummaryBodies ==
    {TicketBody("{\"status\": \"running\"}", <<<<"status", Plain("str", "running")>>>>),
     TicketBody("{\"status\": \"success\"}", <<<<"status", Plain("str", "success")>>>>),
     TicketBody("{\"status\": \"failure\"}", <<<<"status", Plain("str", "failure")>>>>),
     TicketBody("{\"status\": \"queued\"}", <<<<"status", Plain("str", "queued")>>>>),
     TicketBody("{}", <<>>)}

SummaryExchanges ==
    {Exchange("/response-ticket/get/summary/9", FALSE, "", 200, b) : b \in TicketSummaryBodies}
    \cup {Exchange("/response-ticket/get/summary/9", FALSE, "", 200, DataAndMessageBody),
          Exchange("/response-ticket/get/summary/9", FALSE, "", 404, MessageBody)}

FullExchanges ==
    {Exchange("/response-ticket/get/full/9", FALSE, "", 200, EnvelopeBody),
     Exchange("/response-ticket/get/full/9", FALSE, "", 500, HtmlBody),
     Exchange("/response-ticket/get/full/9", TRUE, "Read timed out", 0, EmptyBody)}

\* ResponseTicketsClient.get_summary and get_full
get_summary(x) == _get(x)
get_full(x) == _get(x)

\* status in ["success", "failure"], status being summary.get("status")
TicketTerminal(st) ==
    st \in {<<Plain("str", "success")>>, <<Plain("str", "failure")>>}

InitTicket ==
    /\ ThreadsIdle
    /\ session = DefaultSession
    /\ request = NoRequest
    /\ PayloadIdle
    /\ CallIdle
    /\ JobIdle
    /\ TaskIdle
    /\ client_id_or_name \in ClientIds
    /\ sent = 0
    /\ kstatus = <<>>
    /\ kpc = "summary"
    /\ kpolls = 0
    /\ kres = NoResult

\* summary = get_summary(ticket_id); status = summary.get("status"); the
\* terminal test.
TicketGetSummary ==
    \E x \in SummaryExchanges :
        LET summary == get_summary(x) IN
        /\ kpc = "summary"
        /\ http' = x
        /\ request' = HelperRequest("_get", x.endpoint, session)
        /\ sent' = Counted(sent)
        /\ kpolls' = Counted(kpolls)
        /\ IF summary.kind = "raise"
           THEN kpc' = "done" /\ kres' = summary /\ kstatus' = <<>>
           ELSE IF summary.value.t # "dict"
           THEN /\ kpc' = "done"
                /\ kres' = PyError("AttributeError", <<"object has no attribute 'get'">>)
                /\ kstatus' = <<>>
           ELSE LET st == dict_get(summary.value, "status") IN
                /\ kstatus' = st
                /\ IF TicketTerminal(st)
                   THEN IF st[1].s = "failure"
                        THEN kpc' = "full" /\ kres' = kres
                        ELSE kpc' = "done" /\ kres' = Return(PyStr(st[1].s))
                   ELSE kpc' = "sleep" /\ kres' = kres
        /\ UNCHANGED <<client_id_or_name, session, threads, payloadVars, res, call, resolved, jobVars, taskVars>>

\* full_log = get_full(ticket_id), printed; then `return status`.
TicketGetFull ==
    \E x \in FullExchanges :
        LET full_log == get_full(x) IN
        /\ kpc = "full"
        /\ http' = x
        /\ request' = HelperRequest("_get", x.endpoint, session)
        /\ sent' = Counted(sent)
        /\ kpc' = "done"
        /\ kres' = IF full_log.kind = "raise" THEN full_log
                   ELSE Return(PyStr(kstatus[1].s))
        /\ UNCHANGED <<client_id_or_name, session, threads, payloadVars, res, call, resolved, jobVars, taskVars,
                       kstatus, kpolls>>

\* time.sleep(20)
TicketSleep ==
    /\ kpc = "sleep"
    /\ kpc' = "summary"
    /\ UNCHANGED <<client_id_or_name, session, threads, request, payloadVars, sent, callVars, jobVars, taskVars, kstatus,
                   kpolls, kres>>

NextTicket == TicketGetSummary \/ TicketGetFull \/ TicketSleep

SpecTicket == InitTicket /\ [][NextTicket]_vars

\* ------------------------------------------- the poll loops, run to the end
\* One of the two `while True` loops is started; every step of the running
\* loop is eventually taken (a single thread that is never suspended for
\* ever), while the server is free in what it answers.
InitPoll ==
    /\ ThreadsIdle
    /\ session = DefaultSession
    /\ request = NoRequest
    /\ PayloadIdle
    /\ CallIdle
    /\ JobIdle
    /\ client_id_or_name \in ClientIds
    /\ sent = 0
    /\ task = NoTask
    /\ mpolls = 0
    /\ mres = NoResult
    /\ kstatus = <<>>
    /\ kpolls = 0
    /\ kres = NoResult
    /\ \/ mpc = "get" /\ kpc = "idle"
       \/ mpc = "idle" /\ kpc = "summary"

NextPoll ==
    TaskMonitorGet \/ TaskMonitorSleep \/ TicketGetSummary \/ TicketGetFull \/ TicketSleep

SpecPoll == InitPoll /\ [][NextPoll]_vars /\ WF_vars(NextPoll)

\* ------------------------------------------------------- form payloads
\* A Python value handed to requests as (part of) `data`: its type, for an
\* int or a str its text, for a list its elements, for a dict its items as
\* <<key, value>> pairs in insertion order.
PInt(n) == [t |-> "int", s |-> ToString(n), items |-> <<>>]
PStr(s) == [t |-> "str", s |-> s, items |-> <<>>]
PList(elems) == [t |-> "list", s |-> "", items |-> elems]
PDict(pairs) == [t |-> "dict", s |-> "", items |-> pairs]
PNone == [t |-> "NoneType", s |-> "None", items |-> <<>>]

\* Python truthiness of such a value.
Truthy(v) ==
    CASE v.t = "NoneType" -> FALSE
      [] v.t = "int" -> v.s # "0"
      [] v.t = "str" -> v.s # ""
      [] OTHER -> v.items # <<>>

HasKey(d, k) == \E i \in DOMAIN d : d[i][1] = k
Item(d, k) == d[CHOOSE i \in DOMAIN d : d[i][1] = k][2]

\* d[k] = v on a dict: a key that is already there keeps its place and
\* takes the new value.
SetItem(d, k, v) ==
    IF HasKey(d, k)
    THEN [i \in DOMAIN d |-> IF d[i][1] = k THEN <<k, v>> ELSE d[i]]
    ELSE Append(d, <<k, v>>)

RECURSIVE SetItems(_, _)
SetItems(d, pairs) ==
    IF pairs = <<>> THEN d
    ELSE SetItems(SetItem(d, pairs[1][1], pairs[1][2]), Tail(pairs))

RECURSIVE Flatten(_)
Flatten(ss) == IF ss = <<>> THEN <<>> ELSE ss[1] \o Flatten(Tail(ss))

\* All sequences over S of length at most n.
SeqsUpTo(S, n) == UNION {[1..k -> S] : k \in 0..n}

\* requests.models.RequestEncodingMixin._encode_params on `data`: a str or
\* a value that is not iterable is one field; an iterable gives one field per
\* element (iterating a dict yields its keys).
_encode_params(data) ==
    Flatten([i \in DOMAIN data |->
        LET k == data[i][1]
            vs == data[i][2]
        IN  CASE vs.t \in {"int", "str"} -> <<<<k, vs>>>>
              [] vs.t = "list" -> [j \in DOMAIN vs.items |-> <<k, vs.items[j]>>]
              [] vs.t = "dict" -> [j \in DOMAIN vs.items |-> <<k, PStr(vs.items[j][1])>>]
              [] OTHER -> <<>>])

\* urllib.parse.urlencode(result, doseq=True): a str is one field, a value
\* without len() is one field holding str(v), a value with len() gives one
\* field per element, each holding str(element); the elements of a dict are
\* its keys.  The fields are written as the server reads them back.
urlencode(result) ==
    Flatten([i \in DOMAIN result |->
        LET k == result[i][1]
            v == result[i][2]
        IN  CASE v.t \in {"int", "str"} -> <<<<k, v.s>>>>
              [] v.t = "list" -> [j \in DOMAIN v.items |-> <<k, v.items[j].s>>]
              [] v.t = "dict" -> [j \in DOMAIN v.items |-> <<k, v.items[j][1]>>]
              [] OTHER -> <<>>])

\* The body requests.post(url, data=data) sends.
FormFields(data) == urlencode(_encode_params(data))

\* The values of the fields named k, in order.
FieldValues(fields, k) ==
    LET hits == SelectSeq(fields, LAMBDA f : f[1] = k) IN
    [i \in DOMAIN hits |-> hits[i][2]]

\* ----- MetricsClient.query
FilterObject(column, operator, value) ==
    PDict(<<<<"column", PStr(column)>>, <<"operator", PStr(operator)>>,
            <<"value", PStr(value)>>>>)

FilterObjects ==
    {FilterObject("status", "=", "404"),
     FilterObject("request_method", "=", "POST"),
     PDict(<<<<"column", PStr("status")>>, <<"value", PStr("404")>>>>)}

\* filters: None or a list of filter objects.
QueryFilters == {PNone} \cup {PList(l) : l \in SeqsUpTo(FilterObjects, MaxFilters)}

QueryTypes == {"site", "client", "server"}
QueryKeys == {PNone, PStr("example.com")}
Metrics == {PStr("requests"), PList(<<PStr("uniques"), PStr("views")>>)}

\* x if isinstance(x, list) else [x]
AsList(x) == IF x.t = "list" THEN x ELSE PList(<<x>>)

Built(err, data) == [raised |-> err.kind = "raise", err |-> err, data |-> data]

\* MetricsClient.query up to its call of _post: the argument checks and the
\* payload.
query(start, end, metric, dimension, query_type, key, filters) ==
    IF query_type \notin {"site", "client"}
    THEN Built(PyError("ValueError", <<"query_type must be 'site' or 'client'.">>), <<>>)
    ELSE IF ~Truthy(key) /\ query_type # "client"
    THEN Built(PyError("ValueError",
                 <<"'key' (site_id or domain) is required for 'site' queries.">>), <<>>)
    ELSE LET base == <<<<"start", PInt(start)>>, <<"end", PInt(end)>>,
                       <<"metric", AsList(metric)>>,
                       <<"dimension", AsList(dimension)>>>>
         IN  Built(NoResult,
                   IF Truthy(filters) THEN SetItem(base, "filters", filters) ELSE base)

\* ----- the log payloads
LogValues == {"404", "500"}

\* filters: {"status": [v1, ..., vn]}, alone or followed by a second key.
LogFilters ==
    {PDict(<<>>)}
    \cup {PDict(<<<<"status", PList([i \in DOMAIN vs |-> PStr(vs[i])])>>>>) :
            vs \in SeqsUpTo(LogValues, MaxValues)}
    \cup {PDict(<<<<"status", PList([i \in DOMAIN vs |-> PStr(vs[i])])>>,
                  <<"request_type", PList(<<PStr("GET")>>)>>>>) :
            vs \in SeqsUpTo(LogValues, MaxValues)}

\* One filter given as a bare value instead of a list.
ScalarLogFilters == {PDict(<<<<"status", PStr("404")>>>>)}

\* The assignments payload[f'data[filter][{f_key}][]'] = val, in loop order.
FilterAssignments(filters) ==
    Flatten([i \in DOMAIN filters.items |->
        LET f_key == filters.items[i][1]
            f_values == AsList(filters.items[i][2])
        IN  [j \in DOMAIN f_values.items |->
                <<"data[filter][" \o f_key \o "][]", f_values.items[j]>>]])

\* payload[f"data[{key}]"] = value for every item of data.
DataKeys(data) == [i \in DOMAIN data |-> <<"data[" \o data[i][1] \o "]", data[i][2]>>]

\* SitesClient._build_log_payload
_build_log_payload(data) ==
    LET filters == IF HasKey(data, "filters") THEN Item(data, "filters") ELSE PDict(<<>>)
        rest == SelectSeq(data, LAMBDA e : e[1] # "filters")
        payload0 == SetItems(<<>>, DataKeys(rest))
    IN  IF Truthy(filters) /\ filters.t = "dict"
        THEN SetItems(payload0, FilterAssignments(filters))
        ELSE payload0

\* The payload of MetricsClient.get_site_logs.
metrics_log_payload(start, end, page_size, sort_order, scroll_id, filters) ==
    LET data0 == <<<<"start", PInt(start)>>, <<"end", PInt(end)>>,
                    <<"page_size", PInt(page_size)>>, <<"sort_order", PStr(sort_order)>>>>
        data_payload == IF Truthy(scroll_id) THEN SetItem(data0, "scroll_id", scroll_id)
                        ELSE data0
    IN  IF Truthy(filters)
        THEN SetItems(SetItems(<<>>, DataKeys(data_payload)), FilterAssignments(filters))
        ELSE DataKeys(data_payload)

\* ----- actions: the calls that build a form payload
InitPayload ==
    /\ ThreadsIdle
    /\ session = DefaultSession
    /\ request = NoRequest
    /\ PayloadIdle
    /\ JobIdle
    /\ TaskIdle
    /\ TicketIdle
    /\ client_id_or_name \in ClientIds
    /\ http \in SiteExchanges
    /\ res = NoResult
    /\ sent = 0
    /\ call = NoCall
    /\ resolved = NoResolved

QueryOp == Op("metrics", "query", "query_type", "none", "_post", "data")

\* client.metrics.query(start, end, metric, dimension, query_type, key, filters)
MetricsQuery ==
    \E query_type \in QueryTypes, key \in QueryKeys, metric \in Metrics,
       filters \in QueryFilters :
        LET q == query(1700000000, 1700003600, metric, PStr("http_host"),
                       query_type, key, filters) IN
        /\ call = NoCall
        /\ call' = Call(QueryOp, <<>>, <<>>, ~q.raised)
        /\ args' = <<<<"query_type", PStr(query_type)>>, <<"key", key>>,
                      <<"metric", metric>>, <<"filters", filters>>>>
        /\ payload' = q.data
        /\ form' = IF q.raised THEN <<>> ELSE FormFields(q.data)
        /\ request' = IF q.raised THEN request
                      ELSE HelperRequest("_post", http.endpoint, session)
        /\ res' = IF q.raised THEN q.err ELSE HelperRun("_post", http).res
        /\ sent' = IF q.raised THEN sent ELSE sent + HelperRun("_post", http).requests
        /\ UNCHANGED <<client_id_or_name, session, threads, http, resolved, jobVars, taskVars, ticketVars>>

LogSiteIds == {<<>>, <<1>>}

\* client.sites.get_site_logs / get_error_logs(start, end, site_id, **kwargs),
\* kwargs holding filters or nothing.
SitesGetLogs ==
    \E op \in {o \in SitesOps : o.name \in {"get_site_logs", "get_error_logs"}},
       site_id \in LogSiteIds,
       kwargs \in {<<>>} \cup {<<<<"filters", f>>>> : f \in LogFilters \cup ScalarLogFilters} :
        LET w == Wrapper(op, client_id_or_name, site_id, <<>>, TRUE, http)
            data == _build_log_payload(
                        <<<<"start", PInt(1700000000)>>, <<"end", PInt(1700003600)>>>>
                        \o kwargs)
        IN
        /\ call = NoCall
        /\ call' = Call(op, site_id, <<>>, TRUE)
        /\ args' = kwargs
        /\ resolved' = w.resolved
        /\ payload' = IF w.resolved.raised THEN <<>> ELSE data
        /\ form' = IF w.resolved.raised THEN <<>> ELSE FormFields(data)
        /\ res' = w.res
        /\ sent' = sent + w.requests
        /\ request' = IF w.requests > 0
                      THEN HelperRequest(op.helper, http.endpoint, session)
                      ELSE request
        /\ UNCHANGED <<client_id_or_name, session, threads, http, jobVars, taskVars, ticketVars>>

ScrollIds == {PNone, PStr("c2Nyb2xs")}

\* client.metrics.get_site_logs(start, end, site_id, scroll_id=, filters=)
MetricsGetSiteLogs ==
    \E op \in {o \in MetricsOps : o.name = "get_site_logs"},
       site_id \in LogSiteIds, scroll_id \in ScrollIds,
       filters \in {PNone} \cup LogFilters :
        LET w == Wrapper(op, client_id_or_name, site_id, <<>>, TRUE, http)
            data == metrics_log_payload(1700000000, 1700003600, 500, "asc",
                                        scroll_id, filters)
        IN
        /\ call = NoCall
        /\ call' = Call(op, site_id, <<>>, TRUE)
        /\ args' = <<<<"scroll_id", scroll_id>>, <<"filters", filters>>>>
        /\ resolved' = w.resolved
        /\ payload' = IF w.resolved.raised THEN <<>> ELSE data
        /\ form' = IF w.resolved.raised THEN <<>> ELSE FormFields(data)
        /\ res' = w.res
        /\ sent' = sent + w.requests
        /\ request' = IF w.requests > 0
                      THEN HelperRequest(op.helper, http.endpoint, session)
                      ELSE request
        /\ UNCHANGED <<client_id_or_name, session, threads, http, jobVars, taskVars, ticketVars>>

\* ----- TasksClient.create
TaskTypes == {"software", "site-find-files", "run-wp-cli-command"}

\* wp_cli_args: None, or a list of up to MaxValues arguments; an argument
\* may occur more than once.
WpCliArgs == {PNone} \cup {PList(l) : l \in SeqsUpTo({PStr("--skip-plugins"), PStr("cron")}, MaxValues)}

\* software_actions: None, or a dict from software slugs to actions.
SoftwareActions ==
    {PNone, PDict(<<>>),
     PDict(<<<<"plugins/akismet/latest", PStr("activate")>>>>),
     PDict(<<<<"plugins/akismet/latest", PStr("activate")>>,
             <<"themes/twentytwenty/latest", PStr("activate")>>>>)}

FilePatterns == {PNone, PStr("*.php")}
SiteCountLimits == {PNone, PInt(0), PInt(5)}

payload_list_as_dict(payload_list, pairs) == SetItems(payload_list, pairs)

\* payload_list.append(pair) for each of the pairs, in order.
payload_list_append(payload_list, pairs) == payload_list \o pairs

\* TasksClient.create up to its call of _post: the payload list, or the
\* ValueError of a missing argument (its message quotes the argument's name
\* with backquotes).
create(task_type, send_webhook_for, software_actions, file_pattern, wp_cli_args, site_count_limit) ==
    LET head == payload_list_append(
                    <<<<"send_webhook_for", PStr(send_webhook_for)>>>>,
                    IF Truthy(site_count_limit)
                    THEN <<<<"site_count_limit", PStr(site_count_limit.s)>>>>
                    ELSE <<>>)
    IN
    CASE task_type = "software" ->
            IF ~Truthy(software_actions)
            THEN Built(PyError("ValueError", <<"'software_actions' is required.">>), <<>>)
            ELSE Built(NoResult,
                       payload_list_append(head,
                           [i \in DOMAIN software_actions.items |->
                               <<"software[" \o software_actions.items[i][1] \o "]",
                                 software_actions.items[i][2]>>]))
      [] task_type = "site-find-files" ->
            IF ~Truthy(file_pattern)
            THEN Built(PyError("ValueError", <<"'file_pattern' is required.">>), <<>>)
            ELSE Built(NoResult, payload_list_append(head, <<<<"pattern", file_pattern>>>>))
      [] task_type = "run-wp-cli-command" ->
            IF ~Truthy(wp_cli_args)
            THEN Built(PyError("ValueError", <<"'wp_cli_args' is required.">>), <<>>)
            ELSE Built(NoResult,
                       payload_list_append(head,
                           [i \in DOMAIN wp_cli_args.items |->
                               <<"args[]", wp_cli_args.items[i]>>]))
      [] OTHER -> Built(NoResult, head)

TaskCreateBody ==
    Envelope("{\"data\": {\"task_id\": 42, \"initial_task_manager_id\": 1, \"meta\": {}}}",
             Dict("{\"task_id\": 42, \"initial_task_manager_id\": 1, \"meta\": {}}",
                  <<<<"task_id", Plain("int", "42")>>,
                    <<"initial_task_manager_id", Plain("int", "1")>>,
                    <<"meta", Plain("dict", "{}")>>>>))

\* What the transport may answer to POST /task-create/<client>/<task_type>.
TaskCreateExchanges ==
    {Exchange("/task-create", FALSE, "", 200, TaskCreateBody),
     Exchange("/task-create", FALSE, "", 200, EnvelopeBody),
     Exchange("/task-create", FALSE, "", 400, MessageBody)}

\* TaskCreationResponse.parse_obj(response_data): the outcome of create.
TaskCreationResponse_parse_obj(response_data) ==
    IF response_data.kind = "raise" THEN response_data
    ELSE LET data == response_data.value
             IsA(k, t) == dict_get(data, k) # <<>> /\ dict_get(data, k)[1].t = t
         IN  IF /\ data.t = "dict"
                /\ IsA("task_id", "int")
                /\ IsA("initial_task_manager_id", "int")
                /\ IsA("meta", "dict")
             THEN response_data
             ELSE PyError("ValidationError",
                          <<"validation error for TaskCreationResponse">>)

TasksCreateOp == Op("tasks", "create", "arguments", "none", "_post", "TaskCreationResponse")

\* client.tasks.create(task_type, send_webhook_for, software_actions,
\*                     file_pattern, wp_cli_args, site_count_limit)
TasksCreate ==
    \E task_type \in TaskTypes, software_actions \in SoftwareActions,
       file_pattern \in FilePatterns, wp_cli_args \in WpCliArgs,
       site_count_limit \in SiteCountLimits, x \in TaskCreateExchanges :
        LET c == create(task_type, "none", software_actions, file_pattern, wp_cli_args,
                        site_count_limit) IN
        /\ call = NoCall
        /\ call' = Call(TasksCreateOp, <<>>, <<>>, ~c.raised)
        /\ args' = <<<<"task_type", PStr(task_type)>>,
                      <<"software_actions", software_actions>>,
                      <<"file_pattern", file_pattern>>,
                      <<"wp_cli_args", wp_cli_args>>,
                      <<"site_count_limit", site_count_limit>>>>
        /\ payload' = c.data
        /\ form' = IF c.raised THEN <<>> ELSE FormFields(c.data)
        /\ http' = IF c.raised THEN http ELSE x
        /\ request' = IF c.raised THEN request
                      ELSE HelperRequest("_post", x.endpoint, session)
        /\ res' = IF c.raised THEN c.err
                  ELSE TaskCreationResponse_parse_obj(HelperRun("_post", x).res)
        /\ sent' = IF c.raised THEN sent ELSE sent + HelperRun("_post", x).requests
        /\ UNCHANGED <<client_id_or_name, session, threads, resolved, jobVars, taskVars,
                       ticketVars>>

NextPayload == MetricsQuery \/ SitesGetLogs \/ MetricsGetSiteLogs \/ TasksCreate

SpecPayload == InitPayload /\ [][NextPayload]_vars

\* ------------------------------------------------------ concurrent calls
\* Calls issued by several threads through the resource clients of one
\* AtomicClient.  A call builds its request from the shared session, the
\* transport answers it, and the helper turns the answer into the outcome;
\* the steps of different threads interleave freely.
SessionAfterCallDropsAuth(name, s) ==
    IF name = "_get_raw" THEN [s EXCEPT !.auth = ""] ELSE s

\* The session after a helper ran: no helper assigns to self._session, to
\* self._base_url or to self._client_id_or_name.
SessionAfterCall(name, s) == s

\* What the transport may answer to a request for endpoint e.
Answers(e) ==
    {Exchange(e, FALSE, "", 200, EnvelopeBody),
     Exchange(e, FALSE, "", 404, MessageBody),
     Exchange(e, FALSE, "", 502, HtmlBody),
     Exchange(e, TRUE, "Connection refused", 0, EmptyBody)}

InitConcurrent ==
    /\ ThreadsIdle
    /\ PayloadIdle
    /\ CallIdle
    /\ JobIdle
    /\ TaskIdle
    /\ TicketIdle
    /\ client_id_or_name = "acme"
    /\ session = DefaultSession
    /\ request = NoRequest
    /\ sent = 0

\* url = self._base_url.rstrip('/') + endpoint: the thread builds its request.
ThreadBuild(t) ==
    \E name \in {"_get", "_post", "_get_raw"}, e \in Endpoints :
        /\ threads[t].pc = "idle"
        /\ threads' = [threads EXCEPT ![t] =
                          Thread("built", name, HelperRequest(name, e, session),
                                 NoExchange, NoResult)]
        /\ UNCHANGED <<client_id_or_name, session, request, sent, callVars, jobVars,
                       taskVars, ticketVars, payloadVars>>

\* self._session.request(...) / self._session.get(...): the request goes out
\* and the transport answers.
ThreadSend(t) ==
    /\ threads[t].pc = "built"
    /\ \E x \in Answers(threads[t].request.url[2]) :
          /\ threads' = [threads EXCEPT ![t].pc = "sent", ![t].http = x]
          /\ sent' = sent + HelperRun(threads[t].helper, x).requests
    /\ request' = threads[t].request
    /\ session' = SessionAfterCall(threads[t].helper, session)
    /\ UNCHANGED <<client_id_or_name, callVars, jobVars, taskVars, ticketVars,
                   payloadVars>>

\* The helper returns or raises.
ThreadReturn(t) ==
    /\ threads[t].pc = "sent"
    /\ threads' = [threads EXCEPT ![t].pc = "done",
                                  ![t].res = HelperRun(threads[t].helper, threads[t].http).res]
    /\ UNCHANGED <<client_id_or_name, session, request, sent, callVars, jobVars,
                   taskVars, ticketVars, payloadVars>>

NextConcurrent == \E t \in Threads : ThreadBuild(t) \/ ThreadSend(t) \/ ThreadReturn(t)

SpecConcurrent == InitConcurrent /\ [][NextConcurrent]_vars

\* ------------------------------------------------------------ claims C1-C4
HttpHelperCalled == call.op.name \in {"_get", "_post"} /\ ~http.failed

Raised(cls, code) ==
    /\ res.kind = "raise"
    /\ res.cls = cls
    /\ res.has_status
    /\ res.status_code = code

\* C1: for every failed HTTP response handled by _request (through _get and
\* _post) the status code alone decides the error: 404 raises NotFoundError,
\* any other 4xx InvalidRequestError, any 5xx ServerError, each carrying the
\* response status; a 2xx response is never classified and raises nothing.
C1_StatusAloneDecidesError ==
    HttpHelperCalled =>
        /\ http.status = 404 => Raised("NotFoundError", 404)
        /\ (400 <= http.status /\ http.status <= 499 /\ http.status # 404)
               => Raised("InvalidRequestError", http.status)
        /\ (500 <= http.status /\ http.status <= 599)
               => Raised("ServerError", http.status)
        /\ (200 <= http.status /\ http.status <= 299)
               => ~res.classified /\ res.kind # "raise"

\* C2: for a 2xx JSON response _get and _post return the body's 'data' member
\* when the decoded body is an object that has one, and otherwise the whole
\* decoded body unchanged.
C2_DataOrWholeBody ==
    (/\ HttpHelperCalled
     /\ 200 <= http.status /\ http.status <= 299
     /\ http.body.kind # "invalid")
    => /\ res.kind = "return"
       /\ res.value = IF http.body.kind = "object" /\ http.body.hasData
                      THEN http.body.data
                      ELSE http.body.decoded

BaseResolverRan == resolved.ran /\ call.op.resolver = "base"

\* C3: with 'present' meaning 'not None', _get_service_and_identifier returns
\* ("domain", domain) whenever domain is present, (client_id_or_name, site_id)
\* when domain is absent and site_id is present, and raises only when both
\* are absent.
C3_ResolverByPresence ==
    BaseResolverRan =>
        /\ call.domain # <<>> =>
              /\ ~resolved.raised
              /\ resolved.service = "domain"
              /\ resolved.by = "domain"
              /\ resolved.domain = call.domain[1]
        /\ (call.domain = <<>> /\ call.site_id # <<>>) =>
              /\ ~resolved.raised
              /\ resolved.service = client_id_or_name
              /\ resolved.by = "site_id"
              /\ resolved.site_id = call.site_id[1]
        /\ resolved.raised => (call.domain = <<>> /\ call.site_id = <<>>)

NeitherGiven == call.op # NoOp /\ call.site_id = <<>> /\ call.domain = <<>>

\* C4: a site-scoped wrapper called with neither site_id nor domain is
\* rejected before any network activity: it raises and no transport request
\* has been issued.
C4_NoRequestWithoutSite ==
    NeitherGiven => (res.kind = "raise" /\ sent = 0)

\* A wrapper that passed its own argument check, was given neither site_id
\* nor domain, and was rejected by the resolver.
C4_Witness ==
    /\ NeitherGiven
    /\ call.op.client = "edge_cache"
    /\ resolved.ran /\ resolved.raised
    /\ res.cls = "ValueError"
    /\ sent = 0

\* ------------------------------------------------------------ claims C5-C8
Events == {jlog[i] : i \in DOMAIN jlog}
LastEvent == IF jlog = <<>> THEN "" ELSE jlog[Len(jlog)]

C5_Terminal == {PyStr("success"), PyStr("failure"), PyStr("failed"), PyStr("error")}

\* C5: Job.wait returns on the first status fetch whose value is 'success',
\* 'failure', 'failed' or 'error', and polls again after every other value.
C5_FailureSentinelsTerminal ==
    /\ jpc = "sleep" => current_status \notin C5_Terminal
    /\ (jpc = "done" /\ LastEvent = "fetch") =>
          (current_status \in C5_Terminal /\ jres = Return(current_status))

\* A finished wait in which every status fetch answered, and none of the
\* answers was 'success' or 'failure'.
NonTerminalRun ==
    /\ jpc = "done"
    /\ "fetch_error" \notin Events
    /\ seen \cap {PyStr("success"), PyStr("failure")} = {}

\* C6 as stated: with a status that is never terminal and a timeout shorter
\* than one poll interval, Job.wait returns a Timeout outcome value and does
\* not raise.
C6_TimeoutIsReturnedValue ==
    (NonTerminalRun /\ 0 < wait.timeout /\ wait.timeout < wait.poll_interval) =>
        jres.kind = "return"

\* C6 as amended: in that case Job.wait reports the timeout by raising
\* TimeoutError and returns no value.
C6_TimeoutIsRaised ==
    (NonTerminalRun /\ wait.timeout < wait.poll_interval) =>
        /\ jres.kind = "raise"
        /\ jres.cls = "TimeoutError"
        /\ jres.value = NoVal

\* One non-terminal fetch, one sleep, then the timeout.
C6_Witness ==
    /\ NonTerminalRun
    /\ 0 < wait.timeout /\ wait.timeout < wait.poll_interval
    /\ jlog = <<"fetch", "sleep", "timeout">>
    /\ jres.cls = "TimeoutError"

\* C7 as stated: for every timeout and poll_interval a wait whose status is
\* never terminal ends no later than timeout + poll_interval after it began.
C7_EndsWithinTimeoutPlusPoll ==
    NonTerminalRun => real <= wait.timeout + wait.poll_interval

\* C7 as amended: the bound holds for every timeout >= 0 and every
\* poll_interval >= 0.
C7_EndsWithinTimeoutPlusPollNonNegative ==
    (NonTerminalRun /\ wait.timeout >= 0 /\ wait.poll_interval >= 0) =>
        real <= wait.timeout + wait.poll_interval

\* A wait with timeout < poll_interval that slept past its timeout.
C7_Witness ==
    /\ NonTerminalRun
    /\ 0 <= wait.timeout /\ wait.timeout < wait.poll_interval
    /\ real > wait.timeout
    /\ "sleep" \in Events

\* C8: every value Job.wait returns is 'success' or 'failure' and was
\* returned by a status fetch of that same wait; a timeout is reported by
\* raising TimeoutError, never as a status value.
C8_ReturnIsFetchedTerminal ==
    /\ jres.kind = "return" =>
          /\ jres.value \in {PyStr("success"), PyStr("failure")}
          /\ jres.value \in seen
          /\ jres.value = current_status
    /\ LastEvent = "timeout" =>
          /\ jres.kind = "raise"
          /\ jres.cls = "TimeoutError"
          /\ jres.value = NoVal

\* A wait that polled, slept, and then returned the fetched 'failure'.
C8_Witness ==
    /\ jpc = "done"
    /\ jres = Return(PyStr("failure"))
    /\ jlog = <<"fetch", "sleep", "fetch">>

\* ----------------------------------------------------------- claims C9-C10
\* The monitor loop has fetched a status payload that carries task_id and meta.
TaskFetched ==
    /\ mpolls > 0
    /\ ~http.failed
    /\ http.status = 200
    /\ http.body \in TaskStatusBodies

PayloadComplete == dict_get(http.body.data, "complete")

\* C9: a Task parsed from a status payload has complete = None and is not
\* terminal when the payload's 'complete' is "", null or missing; it is
\* terminal, with the parsed timestamp, when 'complete' is
\* "2024-01-01T00:00:00Z"; the empty string is never parsed as a timestamp,
\* and this holds for every value of the meta counters.
C9_EmptyCompleteIsRunning ==
    TaskFetched =>
        /\ (\/ PayloadComplete = <<>>
            \/ PayloadComplete = <<Plain("NoneType", "null")>>
            \/ PayloadComplete = <<Plain("str", "")>>) =>
              /\ task.parsed
              /\ task.complete = <<>>
              /\ ~TaskComplete(task)
              /\ mpc # "done"
        /\ PayloadComplete = <<Plain("str", "2024-01-01T00:00:00Z")>> =>
              /\ task.parsed
              /\ task.complete = <<1704067200>>
              /\ mpc = "done"
              /\ mres.kind = "return"
        /\ task.parsed => <<task.meta>> = dict_get(http.body.data, "meta")

\* A payload with complete "" and non-zero counters was parsed and the loop
\* goes on polling.
C9_Witness ==
    /\ TaskFetched
    /\ PayloadComplete = <<Plain("str", "")>>
    /\ task.parsed
    /\ task.meta = Plain("dict", "{\"success_count\": 2, \"failure_count\": 1}")
    /\ mpc = "sleep"

\* The status values get_summary documents: "success", "failure", "running".
DocumentedTicketStatus ==
    kstatus \in {<<Plain("str", s)>> : s \in {"success", "failure", "running"}}

\* C10: for summaries that carry a documented status, the ticket poll loop
\* polls again after 'running' and only after 'running', and stops at the
\* first summary whose status is 'success' or 'failure', returning that
\* status.
C10_RunningOnlyNonTerminal ==
    DocumentedTicketStatus =>
        /\ kstatus = <<Plain("str", "running")>> <=> kpc \in {"sleep", "summary"}
        /\ TicketTerminal(kstatus) => kpc \in {"full", "done"}
        /\ (kpc = "done" /\ TicketTerminal(kstatus)) =>
              kres = Return(PyStr(kstatus[1].s))
\* ---------------------------------------------------------- claims C11-C20
\* C11: the blocking wait of every pollable operation terminates: a poll loop
\* whose status never becomes terminal stops once its timeout has elapsed, so
\* every started task or ticket poll loop eventually ends.
C11_EveryWaitTerminates == <>(mpc = "done" \/ kpc = "done")

\* A payload-building call that got as far as its _post.
PayloadSent(client, names) ==
    /\ call.op.client = client
    /\ call.op.name \in names
    /\ call.extra_ok
    /\ ~resolved.raised
    /\ sent = 1

GivenFilters == IF HasKey(args, "filters") THEN Item(args, "filters") ELSE PNone

\* C12: MetricsClient.query called with a list of n filter objects sends a
\* form payload holding, for every i in 0..n-1 and every field f of filter i,
\* exactly one field filters[i][f] whose value is that field's value.
C12_IndexedFilterFields ==
    (PayloadSent("metrics", {"query"}) /\ GivenFilters.t = "list") =>
        \A i \in DOMAIN GivenFilters.items :
            \A j \in DOMAIN GivenFilters.items[i].items :
                LET f == GivenFilters.items[i].items[j] IN
                FieldValues(form, "filters[" \o ToString(i - 1) \o "][" \o f[1] \o "]")
                    = <<f[2].s>>

\* The entries of the payload whose key is k: their values, in order.
PayloadValues(k) ==
    LET hits == SelectSeq(payload, LAMBDA e : e[1] = k) IN
    [i \in DOMAIN hits |-> hits[i][2].s]

\* C13: for a log query with filters {key: [v1, ..., vn]} the payload built
\* by SitesClient._build_log_payload and by MetricsClient.get_site_logs holds
\* exactly n entries data[filter][key][], one per value, in list order, and
\* so does the form sent.
C13_OneEntryPerFilterValue ==
    (/\ \/ PayloadSent("sites", {"get_site_logs", "get_error_logs"})
        \/ PayloadSent("metrics", {"get_site_logs"})
     /\ GivenFilters.t = "dict") =>
        \A i \in DOMAIN GivenFilters.items :
            LET f_key == GivenFilters.items[i][1]
                f_values == GivenFilters.items[i][2]
                k == "data[filter][" \o f_key \o "][]"
                vs == [j \in DOMAIN f_values.items |-> f_values.items[j].s]
            IN  f_values.t = "list" =>
                    /\ PayloadValues(k) = vs
                    /\ FieldValues(form, k) = vs

\* The classes of the SDK's error taxonomy: AtomicAPIError and its subclasses.
APIErrorClasses ==
    {"AtomicAPIError", "AuthenticationError", "InvalidRequestError",
     "NotFoundError", "ServerError"}

\* C14: every failure of a JSON call (_get, _post), be it a transport
\* failure or a response with a 4xx or 5xx status, whatever its body, reaches
\* the caller as an AtomicAPIError or a subclass of it, and whenever an HTTP
\* response was received the error carries that response's status code.
C14_EveryFailureIsTyped ==
    (/\ call.op.name \in {"_get", "_post"}
     /\ http.failed \/ raise_for_status(http.status)) =>
        /\ res.kind = "raise"
        /\ res.cls \in APIErrorClasses
        /\ ~http.failed => (res.has_status /\ res.status_code = http.status)

\* C15: _get_raw classifies a failed response like the JSON helpers: 404
\* raises NotFoundError, any other 4xx InvalidRequestError, a 5xx ServerError,
\* each with status_code equal to the response status; on success it returns
\* the body bytes unmodified.
C15_RawClassifiesLikeJson ==
    (call.op.name = "_get_raw" /\ ~http.failed) =>
        /\ http.status = 404 => Raised("NotFoundError", 404)
        /\ (400 <= http.status /\ http.status <= 499 /\ http.status # 404)
               => Raised("InvalidRequestError", http.status)
        /\ (500 <= http.status /\ http.status <= 599)
               => Raised("ServerError", http.status)
        /\ (200 <= http.status /\ http.status <= 299)
               => res = Return(Val("bytes", http.body.text))

\* C16: when the transport fails without a response, _get, _post and
\* _get_raw raise exactly the generic AtomicAPIError, with status_code None
\* and a message that contains the transport error text.
C16_TransportFailureIsGeneric ==
    (call.op.name \in {"_get", "_post", "_get_raw"} /\ http.failed) =>
        /\ res.kind = "raise"
        /\ res.cls = "AtomicAPIError"
        /\ ~res.has_status
        /\ \E i \in DOMAIN res.message : res.message[i] = http.errtext

\* A download whose connection was refused.
C16_Witness ==
    /\ call.op.name = "_get_raw"
    /\ http.failed
    /\ http.errtext = "Connection refused"
    /\ res.cls = "AtomicAPIError"
    /\ sent = 1

\* C17: for a response whose status is not 2xx, the message of the raised
\* error is the body's 'message' member when the body is a JSON object that
\* has one, and the raw response text when the body is not JSON or is an
\* object without 'message'.
C17_MessageFromBodyOrText ==
    (/\ HttpHelperCalled
     /\ ~(200 <= http.status /\ http.status <= 299)
     /\ res.kind = "raise") =>
        /\ (http.body.kind = "object" /\ http.body.hasMessage)
               => res.message = <<http.body.message>>
        /\ (http.body.kind = "object" /\ ~http.body.hasMessage)
               => res.message = <<http.body.text>>
        /\ http.body.kind = "invalid" => res.message = <<http.body.text>>

\* A call was rejected before any request was sent.
RejectedBeforeRequest == call.op # NoOp /\ res.kind = "raise" /\ sent = 0

\* C18: an argument check that rejects a call before any request raises an
\* error whose class is neither AtomicAPIError nor a subclass of it.
C18_UsageErrorsAreNotAPIErrors ==
    RejectedBeforeRequest => res.cls \notin APIErrorClasses

\* C19: for every status outside 200..299, a response of _request whose body
\* is a JSON object raises one member of the taxonomy carrying that status,
\* and a result is returned only for a 2xx status.
C19_StatusHandlingIsTotal ==
    (HttpHelperCalled /\ http.body.kind = "object") =>
        /\ ~(200 <= http.status /\ http.status <= 299) =>
              /\ res.kind = "raise"
              /\ res.cls \in APIErrorClasses
              /\ res.has_status /\ res.status_code = http.status
        /\ res.kind = "return" => (200 <= http.status /\ http.status <= 299)

\* C20: each call of _get, _post or _get_raw issues exactly one transport
\* request, whether it succeeds, gets an HTTP error status, or fails at
\* transport level.
C20_OneRequestPerCall ==
    call.op.name \in {"_get", "_post", "_get_raw"} => sent = 1

\* A _post answered with a 5xx status: one request, no second try.
C20_Witness ==
    /\ call.op.name = "_post"
    /\ ~http.failed
    /\ http.status = 503
    /\ res.cls = "ServerError"
    /\ sent = 1

\* ---------------------------------------------------------- claims C21-C30
\* C21: every JSON request reaches the transport with the client's
\* configured default timeout, and every raw-byte download with a timeout
\* strictly longer than that.
C21_TimeoutsApplied ==
    /\ call.op.name \in {"_get", "_post"} => request.timeout = <<session.timeout>>
    /\ call.op.name = "_get_raw" =>
          /\ request.timeout # <<>>
          /\ request.timeout[1] > session.timeout

C23_FacadeJobsCanPoll ==
    (call.op \in JobOps /\ job.job_id # 0 /\ jres.kind = "raise")
        => jres.cls # "RuntimeError"

\* The statuses on which Job.wait returns.
WaitReturnsOn == {PyStr("success"), PyStr("failure")}

Sleeps == Cardinality({i \in DOMAIN jlog : jlog[i] = "sleep"})

C25_TimeoutCountsRealTime ==
    wait.timeout >= 0 =>
        /\ LastEvent = "timeout" =>
              /\ real >= wait.timeout
              /\ real <= wait.timeout + wait.poll_interval
        /\ jpc = "status" => real < wait.timeout

\* C26: polling is idempotent and free of side effects: a step of
\* Job.status() or Job.wait() leaves every field of the Job and its client
\* reference as they were; each request it sends is one GET of the status
\* of that same job_id; and the value a fetch yields is the one the
\* server's answer gives, so two fetches answered alike yield the same value.
C26_PollingHasNoSideEffects ==
    [][job.job_id # 0 =>
          /\ job' = job
          /\ session' = session
          /\ sent' # sent =>
                /\ sent' = sent + 1
                /\ request'.method = "GET"
                /\ request' = job_status_request(job.job_id, session)
                /\ http'.endpoint = "/job-status/" \o ToString(job.job_id)
          /\ (jlog' # jlog /\ jlog'[Len(jlog')] = "fetch") =>
                current_status' = get_job_status(job.job_id, http').value
          /\ (jlog' # jlog /\ jlog'[Len(jlog')] \in {"status", "fetch_error"}) =>
                jres' = status(job, http').out
    ]_vars

\* status() was called on a Job returned through the facade with its site
\* fields set, one status request went out, and the call returned.
C26_Witness ==
    /\ jlog = <<"status">>
    /\ job.atomic_site_id = <<1>>
    /\ jres.kind = "return"
    /\ request = job_status_request(job.job_id, session)
    /\ sent = 2

\* C27: the ticket poll loop decides the terminal status from the summary
\* alone: once a summary reported 'failure', the loop ends with the outcome
\* 'failure', whether the fetch of the full log succeeds or fails.
C27_FailureKnownWithoutLog ==
    (kstatus = <<Plain("str", "failure")>> /\ kpc = "done") =>
        /\ kres.kind = "return"
        /\ kres.value = PyStr("failure")

\* C28: Job.wait fetches the status at least once before it reports a
\* timeout, for every timeout value, 0 and negative values included.
C28_FetchBeforeTimeout ==
    (LastEvent = "timeout" /\ job.has_client) => Fetches >= 1

\* The fetched status payload is an object carrying 'success' under '_status'.
DictStatusSuccess ==
    /\ current_status.t = "dict"
    /\ dict_get(current_status, "_status") = <<Plain("str", "success")>>

\* C29: Job.wait recognises completion in both shapes of the status
\* payload: after a fetch that returned the plain string 'success' or an
\* object with '_status' = 'success', the wait has returned that status; it
\* does not sleep and poll on.
C29_BothPayloadShapesRecognised ==
    (LastEvent = "fetch" /\ (current_status = PyStr("success") \/ DictStatusSuccess)) =>
        /\ jpc = "done"
        /\ jres.kind = "return"

\* TasksClient.create built its payload and sent it.
TaskCreated == PayloadSent("tasks", {"create"})

\* The payload entries whose key starts a software[...] field, i.e. all
\* entries but send_webhook_for, site_count_limit, pattern and args[].
SoftwareEntries ==
    SelectSeq(payload, LAMBDA e : e[1] \notin {"send_webhook_for", "site_count_limit",
                                              "pattern", "args[]"})

\* C30: the POST body of TasksClient.create is an ordered list of pairs
\* whose first entry is send_webhook_for; for 'run-wp-cli-command' with k
\* arguments it holds exactly k ('args[]', arg) pairs, in the order given,
\* duplicates included; for 'software' it holds exactly one
\* ('software[slug]', action) pair per entry of software_actions; and the
\* form sent carries the same fields.
C30_TaskPayloadIsListOfPairs ==
    TaskCreated =>
        /\ payload[1] = <<"send_webhook_for", PStr("none")>>
        /\ Item(args, "task_type") = PStr("run-wp-cli-command") =>
              LET given == Item(args, "wp_cli_args").items
                  vs == [i \in DOMAIN given |-> given[i].s]
              IN  /\ PayloadValues("args[]") = vs
                  /\ FieldValues(form, "args[]") = vs
                  /\ SoftwareEntries = <<>>
        /\ Item(args, "task_type") = PStr("software") =>
              LET given == Item(args, "software_actions").items IN
              /\ SoftwareEntries =
                    [i \in DOMAIN given |->
                        <<"software[" \o given[i][1] \o "]", given[i][2]>>]
              /\ \A i \in DOMAIN given :
                    FieldValues(form, "software[" \o given[i][1] \o "]") = <<given[i][2].s>>
              /\ PayloadValues("args[]") = <<>>

\* A run-wp-cli-command task whose arguments repeat a value was sent with
\* one args[] field per argument.
C30_Witness ==
    /\ TaskCreated
    /\ Item(args, "task_type") = PStr("run-wp-cli-command")
    /\ Item(args, "wp_cli_args") = PList(<<PStr("cron"), PStr("--skip-plugins"), PStr("cron")>>)
    /\ FieldValues(form, "args[]") = <<"cron", "--skip-plugins", "cron">>
    /\ res.kind = "return"
====
